---------------------------- MODULE Spec2Model ----------------------------
(***************************************************************************)
(* Model of Clinic_dashboard.py: a Streamlit script that loads a CSV of    *)
(* clinic records once (st.cache_data), and on every user interaction      *)
(* re-runs top to bottom: three cascading multiselect filters (type ->     *)
(* district -> brand), the final filtered frame, KPI cards, value_counts   *)
(* charts, the GPS subset of the map and the brand-headquarters table.     *)
(*                                                                         *)
(* A DataFrame is a sequence of rows; a row is a function from the column  *)
(* names present in the CSV to cell values.  A frame derived from df by    *)
(* boolean indexing is the sequence of the surviving index labels of df    *)
(* (pandas keeps the labels and their order).                              *)
(***************************************************************************)
EXTENDS Integers, Sequences, FiniteSets, TLC

\* ---------------------------------------------------------------- bounds
\* Most rows a loaded CSV has in the model.
MaxRows == 2

\* ----------------------------------------------------------- cell values
\* A missing string cell (NaN in an object column).
NULL == "<NA>"

\* A missing float cell (NaN in Latitude / Longitude); a present one is <<x>>,
\* x in units of 0.0001 degree.
NoCoord == << >>

\* Every string the model's cells and option lists can hold, in the order
\* Python's sorted() gives them (code point order).
Lex ==
    << " independent ", "<NA>", "Addr", "Apollo", "Chained", "Chennai", "Clinic",
       "Independent", "Madurai", "Nan", "Nova", "Unknown", "X", "Y", "a@b.c" >>

Rank(s) == CHOOSE k \in 1..Len(Lex) : Lex[k] = s

Range(seq) == { seq[k] : k \in 1..Len(seq) }

\* sorted(xs) for a collection of distinct strings.
RECURSIVE Sorted(_)
Sorted(S) ==
    IF S = {} THEN << >>
    ELSE LET m == CHOOSE x \in S : \A y \in S : Rank(x) <= Rank(y)
         IN  << m >> \o Sorted(S \ {m})

\* ------------------------------------------------------------- load_data
\* The columns the script ever names.
AllCols ==
    { "Clinic Name", "Clinic_Type", "Mapped_District", "Brand_name", "Latitude",
      "Longitude", "Email", "HQ", "Google_Full_Address", "source" }

\* astype(str).str.strip().str.title() on the Clinic_Type cell: NaN becomes
\* the string "nan" and then "Nan"; surrounding blanks go, each word is
\* capitalised.
StripTitle(v) ==
    CASE v = NULL            -> "Nan"
      [] v = " independent " -> "Independent"
      [] v = "Independent"   -> "Independent"
      [] v = "Chained"       -> "Chained"
      [] OTHER               -> v

\* df.rename(columns={"source": "HQsource"})
RenameCol(c) == IF c = "source" THEN "HQsource" ELSE c

RenameBack(c) == IF c = "HQsource" THEN "source" ELSE c

LoadColumns(cols) == { RenameCol(c) : c \in cols }

\* One raw row after the cleaning steps of load_data.
CleanRow(cols, r) ==
    [ c \in LoadColumns(cols) |->
        CASE c = "Clinic_Type" -> StripTitle(r[c])
          [] c = "Brand_name"  -> IF r[c] = NULL THEN "Unknown" ELSE r[c]
          [] OTHER             -> r[RenameBack(c)] ]

load_data(cols, raw) == [ i \in 1..Len(raw) |-> CleanRow(cols, raw[i]) ]

\* ------------------------------------------------------- frame primitives
\* The index labels of a frame, in row order.
AllRows(d) == [ i \in 1..Len(d) |-> i ]

\* view[view[col].isin(S)]
Isin(d, view, col, S) == SelectSeq(view, LAMBDA i : d[i][col] \in S)

\* view[view[col] == v]
EqualTo(d, view, col, v) == SelectSeq(view, LAMBDA i : d[i][col] = v)

\* sorted(view[col].dropna().unique())
SortedUnique(d, view, col) ==
    Sorted({ d[i][col] : i \in Range(view) } \ {NULL})

\* seq.head(n)
Head_n(seq, n) == SubSeq(seq, 1, IF Len(seq) < n THEN Len(seq) ELSE n)

\* The distinct values of a sequence in order of first appearance.
FirstSeen(seq) ==
    LET pos == { k \in 1..Len(seq) : \A j \in 1..(k - 1) : seq[j] # seq[k] }
        RECURSIVE Build(_)
        Build(P) ==
            IF P = {} THEN << >>
            ELSE LET k == CHOOSE x \in P : \A y \in P : x <= y
                 IN  << seq[k] >> \o Build(P \ {k})
    IN  Build(pos)

\* How many rows of the view hold value v in column col.
CountOf(d, view, col, v) ==
    Cardinality({ k \in 1..Len(view) : d[view[k]][col] = v })

\* Series.value_counts(dropna=...): one (category, count) entry per distinct
\* value, NaN left out when dropna, by descending count; equal counts keep
\* the order in which the values first appear in the view.
value_counts(d, view, col, dropna) ==
    LET vals == [ k \in 1..Len(view) |-> d[view[k]][col] ]
        cats == SelectSeq(FirstSeen(vals), LAMBDA v : ~dropna \/ v # NULL)
        n(v) == CountOf(d, view, col, v)
        RECURSIVE Order(_)
        Order(P) ==
            IF P = {} THEN << >>
            ELSE LET k == CHOOSE x \in P :
                            \A y \in P : \/ n(cats[x]) > n(cats[y])
                                         \/ n(cats[x]) = n(cats[y]) /\ x <= y
                 IN  << [ cat |-> cats[k], count |-> n(cats[k]) ] >>
                        \o Order(P \ {k})
    IN  Order(1..Len(cats))

\* view.dropna(subset=[...]) on the two float columns.
DropNaCoords(d, view) ==
    SelectSeq(view, LAMBDA i : d[i]["Latitude"] # NoCoord /\ d[i]["Longitude"] # NoCoord)

\* view.drop_duplicates(subset=[col], keep=...): one row per value of col,
\* its first occurrence in the view for keep = "first", its last for "last".
drop_duplicates(d, view, col, keep) ==
    LET same(j, k) == d[view[j]][col] = d[view[k]][col]
        kept(k) == IF keep = "first"
                   THEN \A j \in 1..(k - 1) : ~same(j, k)
                   ELSE \A j \in (k + 1)..Len(view) : ~same(j, k)
        RECURSIVE Build(_)
        Build(P) ==
            IF P = {} THEN << >>
            ELSE LET k == CHOOSE x \in P : \A y \in P : x <= y
                 IN  << view[k] >> \o Build(P \ {k})
    IN  Build({ k \in 1..Len(view) : kept(k) })

\* view.sort_values(col) on a string column: ascending, rows with equal
\* values in their order in the view.
SortValues(d, view, col) ==
    LET RECURSIVE Build(_)
        Build(P) ==
            IF P = {} THEN << >>
            ELSE LET k == CHOOSE x \in P :
                            \A y \in P : \/ Rank(d[view[x]][col]) < Rank(d[view[y]][col])
                                         \/ /\ d[view[x]][col] = d[view[y]][col]
                                            /\ x <= y
                 IN  << view[k] >> \o Build(P \ {k})
    IN  Build(1..Len(view))

\* ------------------------------------------------------ streamlit widgets
\* The session's state of one multiselect: whether the last run rendered it,
\* the options it was built with (a widget without a key is identified by
\* its label and arguments) and the values selected in it.
NoWidget == [ rendered |-> FALSE, options |-> << >>, value |-> {} ]

NoWidgets == [ types |-> NoWidget, districts |-> NoWidget, brands |-> NoWidget ]

\* st.multiselect(label, options=options, default=default): the session's
\* selection when the same widget was rendered by the previous run, the
\* default for a new widget (one whose options changed).  The order of the
\* returned list is not modelled: the script only tests it for emptiness
\* and membership.
multiselect(wk, options, default) ==
    IF wk.rendered /\ wk.options = options THEN wk.value ELSE default

Rendered(options, value) ==
    [ rendered |-> TRUE, options |-> options, value |-> value ]

\* ----------------------------------------------------------- the filters
\* sorted(df["Clinic_Type"].dropna().unique())
ClinicTypeOptions(d) == SortedUnique(d, AllRows(d), "Clinic_Type")

\* temp_df = df[df["Clinic_Type"].isin(selected_types)]
TempDf(d, types) == Isin(d, AllRows(d), "Clinic_Type", types)

\* sorted(temp_df["Mapped_District"].dropna().unique())
DistrictOptions(d, types) == SortedUnique(d, TempDf(d, types), "Mapped_District")

\* if selected_districts: temp_df = temp_df[...isin(selected_districts)]
TempDfDistrict(d, types, dists) ==
    IF dists # {}
    THEN Isin(d, TempDf(d, types), "Mapped_District", dists)
    ELSE TempDf(d, types)

\* AvailableBrands without the == "Chained" restriction.
AvailableBrandsOfAllTypes(d, types, dists) ==
    SortedUnique(d, TempDfDistrict(d, types, dists), "Brand_name")

\* sorted(temp_df[temp_df["Clinic_Type"] == "Chained"]["Brand_name"].dropna().unique())
AvailableBrands(d, types, dists) ==
    SortedUnique(d, EqualTo(d, TempDfDistrict(d, types, dists), "Clinic_Type", "Chained"),
                 "Brand_name")

\* Whether the brand multiselect is drawn.
BrandWidgetShown(types, avail) == "Chained" \in types /\ Len(avail) > 0

\* 1. Clinic Type: the option list and the widget's answer, all types by
\* default.
TypeFilter(d, w) ==
    LET options == ClinicTypeOptions(d)
    IN  [ options  |-> options,
          selected |-> multiselect(w.types, options, Range(options)) ]

\* DistrictFilter with the district options taken from the rows that also
\* pass the submitted brand selection.
DistrictFilterPrunedByBrand(d, w, types) ==
    LET rows    == IF w.brands.value # {}
                   THEN Isin(d, TempDf(d, types), "Brand_name", w.brands.value)
                   ELSE TempDf(d, types)
        options == SortedUnique(d, rows, "Mapped_District")
    IN  [ options  |-> options,
          selected |-> multiselect(w.districts, options, {}) ]

\* 2. District: the option list of the rows of the selected types and the
\* widget's answer, nothing by default.
DistrictFilter(d, w, types) ==
    LET options == DistrictOptions(d, types)
    IN  [ options  |-> options,
          selected |-> multiselect(w.districts, options, {}) ]

\* BrandFilter without the else branch: the session's brand selection is
\* used whether or not the widget is drawn with these options.
BrandFilterKeepsSelection(d, w, types, dists) ==
    LET options == AvailableBrands(d, types, dists)
        shown   == BrandWidgetShown(types, options)
    IN  [ options  |-> options,
          shown    |-> shown,
          selected |-> w.brands.value ]

\* 3. Brand: the option list, whether the widget is drawn, and
\* selected_brands: the widget's answer when it is drawn, else [].
BrandFilter(d, w, types, dists) ==
    LET options == AvailableBrands(d, types, dists)
        shown   == BrandWidgetShown(types, options)
    IN  [ options  |-> options,
          shown    |-> shown,
          selected |-> IF shown THEN multiselect(w.brands, options, {}) ELSE {} ]

\* ApplyFinalFilters with the district mask taken from df and applied by
\* position to the type-filtered frame.
ApplyFinalFiltersByPosition(d, view, types, dists, brands) ==
    LET byType     == Isin(d, view, "Clinic_Type", types)
        hit(k)     == d[k]["Mapped_District"] \in dists
        RECURSIVE Build(_)
        Build(P) ==
            IF P = {} THEN << >>
            ELSE LET k == CHOOSE x \in P : \A y \in P : x <= y
                 IN  << byType[k] >> \o Build(P \ {k})
        byDistrict == IF dists # {}
                      THEN Build({ k \in 1..Len(byType) : hit(k) })
                      ELSE byType
    IN  IF brands # {}
        THEN Isin(d, byDistrict, "Brand_name", brands)
        ELSE byDistrict

\* ApplyFinalFilters with the district and brand restrictions applied
\* whether or not anything is selected.
ApplyFinalFiltersAlways(d, view, types, dists, brands) ==
    Isin(d, Isin(d, Isin(d, view, "Clinic_Type", types), "Mapped_District", dists),
         "Brand_name", brands)

\* APPLYING FINAL FILTERS, applied to the frame `view` (the script applies
\* them to df).
ApplyFinalFilters(d, view, types, dists, brands) ==
    LET byType     == Isin(d, view, "Clinic_Type", types)
        byDistrict == IF dists # {}
                      THEN Isin(d, byType, "Mapped_District", dists)
                      ELSE byType
    IN  IF brands # {}
        THEN Isin(d, byDistrict, "Brand_name", brands)
        ELSE byDistrict

\* ------------------------------------------------------------ the outputs
\* head(10) of both bar charts.
TopN == 10

\* The four metric cards.
Metrics(d, view) ==
    [ total       |-> Len(view),
      districts   |-> Cardinality({ d[i]["Mapped_District"] : i \in Range(view) } \ {NULL}),
      chained     |-> Len(EqualTo(d, view, "Clinic_Type", "Chained")),
      independent |-> Len(EqualTo(d, view, "Clinic_Type", "Independent")) ]

\* value_counts(dropna=False): NaN is a category.
ValueCountsKeepNa(d, view, col) == value_counts(d, view, col, FALSE)

\* Series.value_counts() as the script calls it.
ValueCounts(d, view, col) == value_counts(d, view, col, TRUE)

\* top_dist, computed only for a non-empty frame.
TopDist(d, view) ==
    IF view # << >> THEN Head_n(ValueCounts(d, view, "Mapped_District"), TopN) ELSE << >>

\* dropna on the Latitude column alone.
GeoDataLatitudeOnly(d, view) ==
    SelectSeq(view, LAMBDA i : d[i]["Latitude"] # NoCoord)

\* geo_data = filtered.dropna(subset=["Latitude", "Longitude"])
GeoData(d, view) == DropNaCoords(d, view)

\* chained_data / hq_data = filtered[filtered["Clinic_Type"] == "Chained"]
ChainedData(d, view) == EqualTo(d, view, "Clinic_Type", "Chained")

\* top_brands, computed only when a Chained row is in the frame.
TopBrands(d, view) ==
    IF ChainedData(d, view) # << >>
    THEN Head_n(ValueCounts(d, ChainedData(d, view), "Brand_name"), TopN)
    ELSE << >>

\* The headquarters table built from the Chained rows of the whole of df.
HqDataUnfiltered(d, view) == ChainedData(d, AllRows(d))

\* The frame the headquarters table is built from.
HqData(d, view) == ChainedData(d, view)

possible_hq_cols == << "HQ", "Headquarters", "HQ Address", "Google_Full_Address" >>

\* next((c for c in possible_hq_cols if c in hq_data.columns), None)
ValidHqCol(cols) ==
    LET hits == { k \in 1..Len(possible_hq_cols) : possible_hq_cols[k] \in cols }
    IN  IF hits = {} THEN NULL
        ELSE possible_hq_cols[CHOOSE k \in hits : \A j \in hits : k <= j]

\* drop_duplicates(keep="last")
DropDuplicatesKeepLast(d, view, col) == drop_duplicates(d, view, col, "last")

\* DataFrame.drop_duplicates(subset=[col]) as the script calls it.
DropDuplicates(d, view, col) == drop_duplicates(d, view, col, "first")

\* distinct_hq: one (brand, address) row per brand of hq_data, by brand.
DistinctHq(d, hq, col) ==
    LET rows == SortValues(d, DropDuplicates(d, hq, "Brand_name"), "Brand_name")
    IN  [ k \in 1..Len(rows) |->
            [ Brand_name |-> d[rows[k]]["Brand_name"], Location |-> d[rows[k]][col] ] ]

\* What the headquarters section shows.
HqStatus(hq, col) ==
    IF hq # << >> /\ col # NULL THEN "table"
    ELSE IF hq = << >> THEN "No Chained Clinics selected."
    ELSE "Could not find an address column."

cols_wanted == << "Clinic Name", "Google_Full_Address", "Email", "Mapped_District" >>

\* valid_cols = [c for c in cols_wanted if c in filtered.columns]
ValidCols(cols) == SelectSeq(cols_wanted, LAMBDA c : c \in cols)

\* ---------------------------------------------------------------- state
VARIABLES
    columns,              \* the column names of df
    df,                   \* the cached result of load_data()
    theme,                \* the Color Theme radio
    widgets,              \* the session's multiselect states
    dropped,              \* submitted selections the run's widgets did not return
    status,               \* "ok", "stopped" (st.stop) or "KeyError"
    abort_line,           \* the line that raised, 0 when the run completed
    clinic_type_options, selected_types,
    district_options, selected_districts,
    available_brands, selected_brands,
    filtered,             \* the final frame, as index labels of df
    metrics, top_dist, geo_data, top_brands,
    hq_status, distinct_hq, valid_cols, address_error

vars ==
    << columns, df, theme, widgets, dropped, status, abort_line,
       clinic_type_options, selected_types, district_options, selected_districts,
       available_brands, selected_brands, filtered, metrics, top_dist, geo_data,
       top_brands, hq_status, distinct_hq, valid_cols, address_error >>

\* --------------------------------------------------------- one script run
\* The script from `df = load_data()` to its last line, given the session's
\* widget state w and the theme: every value it computes, and the widget
\* state it leaves.  A column the frame lacks raises KeyError at the first
\* line that indexes it; nothing after that line is computed or drawn.
RunScript(cols, d, w, th) ==
    LET has(c)  == c \in cols
        ran     == Len(d) > 0
        ok88    == ran /\ has("Clinic_Type")
        f1      == TypeFilter(d, w)
        opts    == IF ok88 THEN f1.options ELSE << >>
        types   == IF ok88 THEN f1.selected ELSE {}
        ok96    == ok88 /\ has("Mapped_District")
        f2      == DistrictFilter(d, w, types)
        dopts   == IF ok96 THEN f2.options ELSE << >>
        dists   == IF ok96 THEN f2.selected ELSE {}
        ok104   == ok96 /\ has("Brand_name")
        f3      == BrandFilter(d, w, types, dists)
        avail   == IF ok104 THEN f3.options ELSE << >>
        brands  == IF ok104 THEN f3.selected ELSE {}
        view    == IF ok104
                   THEN ApplyFinalFilters(d, AllRows(d), types, dists, brands)
                   ELSE << >>
        ok163   == ok104 /\ has("Latitude") /\ has("Longitude")
        geo     == IF ok163 THEN GeoData(d, view) ELSE << >>
        ok174   == ok163 /\ (geo = << >> \/ has("Clinic Name"))
        hq      == IF ok174 THEN HqData(d, view) ELSE << >>
        hqcol   == ValidHqCol(cols)
        hqstat  == IF ok174 THEN HqStatus(hq, hqcol) ELSE "not reached"
        abort   == IF ~ran THEN 0
                   ELSE IF ~ok88 THEN 88
                   ELSE IF ~ok96 THEN 96
                   ELSE IF ~ok104 THEN 104
                   ELSE IF ~ok163 THEN 163
                   ELSE IF ~ok174 THEN 174
                   ELSE 0
    IN  [ widgets |->
            [ types     |-> IF ok88 THEN Rendered(opts, types) ELSE NoWidget,
              districts |-> IF ok96 THEN Rendered(dopts, dists) ELSE NoWidget,
              brands    |-> IF ok104 /\ f3.shown
                            THEN Rendered(avail, brands) ELSE NoWidget ],
          dropped |-> (w.types.value \ types) \cup (w.districts.value \ dists)
                         \cup (w.brands.value \ brands),
          status  |-> IF ~ran THEN "stopped" ELSE IF abort # 0 THEN "KeyError" ELSE "ok",
          abort_line          |-> abort,
          theme               |-> th,
          clinic_type_options |-> opts,
          selected_types      |-> types,
          district_options    |-> dopts,
          selected_districts  |-> dists,
          available_brands    |-> avail,
          selected_brands     |-> brands,
          filtered            |-> view,
          metrics             |-> IF ok104 THEN Metrics(d, view)
                                  ELSE [ total |-> 0, districts |-> 0,
                                         chained |-> 0, independent |-> 0 ],
          top_dist            |-> IF ok104 THEN TopDist(d, view) ELSE << >>,
          geo_data            |-> geo,
          top_brands          |-> IF ok174 THEN TopBrands(d, view) ELSE << >>,
          hq_status           |-> hqstat,
          distinct_hq         |-> IF hqstat = "table" THEN DistinctHq(d, hq, hqcol)
                                  ELSE << >>,
          valid_cols          |-> IF ok174 THEN ValidCols(cols) ELSE << >>,
          address_error       |-> ok174 /\ ~has("Google_Full_Address") ]

\* The browser shows the run's result (unprimed: the first run).
Shown(o) ==
    /\ widgets = o.widgets /\ dropped = o.dropped /\ status = o.status
    /\ abort_line = o.abort_line /\ theme = o.theme
    /\ clinic_type_options = o.clinic_type_options
    /\ selected_types = o.selected_types
    /\ district_options = o.district_options
    /\ selected_districts = o.selected_districts
    /\ available_brands = o.available_brands
    /\ selected_brands = o.selected_brands
    /\ filtered = o.filtered /\ metrics = o.metrics /\ top_dist = o.top_dist
    /\ geo_data = o.geo_data /\ top_brands = o.top_brands
    /\ hq_status = o.hq_status /\ distinct_hq = o.distinct_hq
    /\ valid_cols = o.valid_cols /\ address_error = o.address_error

\* A rerun replaces everything the previous run showed; df stays cached.
Rerun(w, th) ==
    \E o \in { RunScript(columns, df, w, th) } :
        /\ widgets' = o.widgets /\ dropped' = o.dropped /\ status' = o.status
        /\ abort_line' = o.abort_line /\ theme' = o.theme
        /\ clinic_type_options' = o.clinic_type_options
        /\ selected_types' = o.selected_types
        /\ district_options' = o.district_options
        /\ selected_districts' = o.selected_districts
        /\ available_brands' = o.available_brands
        /\ selected_brands' = o.selected_brands
        /\ filtered' = o.filtered /\ metrics' = o.metrics /\ top_dist' = o.top_dist
        /\ geo_data' = o.geo_data /\ top_brands' = o.top_brands
        /\ hq_status' = o.hq_status /\ distinct_hq' = o.distinct_hq
        /\ valid_cols' = o.valid_cols /\ address_error' = o.address_error
        /\ UNCHANGED << columns, df >>

\* ------------------------------------------------------------ user input
\* The user changes the Clinic Type multiselect to S; the script reruns.
SelectTypes(S) ==
    /\ widgets.types.rendered
    /\ S \subseteq Range(widgets.types.options)
    /\ S # widgets.types.value
    /\ Rerun([widgets EXCEPT !.types.value = S], theme)

\* The user changes the District multiselect to S.
SelectDistricts(S) ==
    /\ widgets.districts.rendered
    /\ S \subseteq Range(widgets.districts.options)
    /\ S # widgets.districts.value
    /\ Rerun([widgets EXCEPT !.districts.value = S], theme)

\* The user changes the Brand / Chain Name multiselect to S.
SelectBrands(S) ==
    /\ widgets.brands.rendered
    /\ S \subseteq Range(widgets.brands.options)
    /\ S # widgets.brands.value
    /\ Rerun([widgets EXCEPT !.brands.value = S], theme)

\* The user flips the Color Theme radio (drawn before any frame is indexed).
ToggleTheme ==
    /\ status # "stopped"
    /\ Rerun(widgets, IF theme = "Light" THEN "Dark" ELSE "Light")

Next ==
    \/ \E S \in SUBSET Range(widgets.types.options) : SelectTypes(S)
    \/ \E S \in SUBSET Range(widgets.districts.options) : SelectDistricts(S)
    \/ \E S \in SUBSET Range(widgets.brands.options) : SelectBrands(S)
    \/ ToggleTheme

\* ------------------------------------------------------------- the inputs
\* One CSV row over every column.
RawRow(type, district, brand, lat, lon, hq) ==
    [ c \in AllCols |->
        CASE c = "Clinic Name"         -> "Clinic"
          [] c = "Clinic_Type"         -> type
          [] c = "Mapped_District"     -> district
          [] c = "Brand_name"          -> brand
          [] c = "Latitude"            -> lat
          [] c = "Longitude"           -> lon
          [] c = "Email"               -> "a@b.c"
          [] c = "HQ"                  -> hq
          [] c = "Google_Full_Address" -> "Addr"
          [] OTHER                     -> NULL ]

\* The CSV files of at most MaxRows rows drawn from Rows, with columns cols.
\* No rows at all is also the frame load_data returns for a missing file.
CsvFiles(Rows, cols) ==
    UNION { [ 1..n -> { [ c \in cols |-> r[c] ] : r \in Rows } ] : n \in 0..MaxRows }

\* The first run of a session on the CSV (cols, raw).
FirstRun(cols, raw) ==
    /\ columns = LoadColumns(cols)
    /\ df = load_data(cols, raw)
    /\ \E o \in { RunScript(LoadColumns(cols), load_data(cols, raw), NoWidgets, "Light") } :
           Shown(o)

\* Rows that differ in type, district and brand.
CascadeRows ==
    { RawRow(t, dist, b, << 130000 >>, << 800000 >>, "X") :
        t \in { "Chained", " independent " },
        dist \in { "Chennai", "Madurai", NULL },
        b \in { "Apollo", NULL } }

Init == \E raw \in CsvFiles(CascadeRows, AllCols) : FirstRun(AllCols, raw)

Spec == Init /\ [][Next]_vars

\* Rows with unclean type cells: padded, lower case, missing.
TypeRows ==
    { RawRow(t, dist, b, << 130000 >>, << 800000 >>, "X") :
        t \in { "Chained", " independent ", "Independent", NULL },
        dist \in { "Chennai", NULL },
        b \in { "Apollo", NULL } }

InitTypes == \E raw \in CsvFiles(TypeRows, AllCols) : FirstRun(AllCols, raw)

SpecTypes == InitTypes /\ [][Next]_vars

\* Chained rows that differ in district, brand and headquarters address,
\* and an independent clinic.
HqRows ==
    { RawRow("Chained", dist, b, << 130000 >>, << 800000 >>, hq) :
        dist \in { "Chennai", "Madurai" },
        b \in { "Apollo", "Nova" },
        hq \in { "X", NULL } }
    \cup { RawRow(" independent ", "Chennai", NULL, << 130000 >>, << 800000 >>, NULL) }

InitHq == \E raw \in CsvFiles(HqRows, AllCols) : FirstRun(AllCols, raw)

SpecHq == InitHq /\ [][Next]_vars

\* Rows that differ in type and coordinates: absent, on the corner
\* (14.0, 81.0) of the box of Tamil Nadu, and 0.0001 degree beyond it.
GeoRows ==
    { RawRow(t, "Chennai", "Apollo", lat, lon, "X") :
        t \in { "Chained", " independent " },
        lat \in { NoCoord, << 140000 >>, << 140001 >> },
        lon \in { NoCoord, << 810000 >>, << 810001 >> } }

InitGeo == \E raw \in CsvFiles(GeoRows, AllCols) : FirstRun(AllCols, raw)

SpecGeo == InitGeo /\ [][Next]_vars

\* The columns a CSV may lack in the model.
DroppableCols ==
    { "Clinic Name", "Mapped_District", "Brand_name", "Latitude", "Longitude",
      "Email", "HQ", "Google_Full_Address" }

ColsRows ==
    { RawRow(t, "Chennai", "Apollo", lat, lat, "X") :
        t \in { "Chained", " independent " },
        lat \in { NoCoord, << 130000 >> } }

InitCols ==
    \E missing \in SUBSET DroppableCols :
        \E raw \in CsvFiles(ColsRows, AllCols \ missing) :
            FirstRun(AllCols \ missing, raw)

SpecCols == InitCols /\ [][Next]_vars

\* ============================================================== properties
Rows == 1..Len(df)

TypeOf(i) == df[i]["Clinic_Type"]

DistrictOf(i) == df[i]["Mapped_District"]

BrandOf(i) == df[i]["Brand_name"]

PassesType(i) == TypeOf(i) \in selected_types

PassesDistrict(i) == selected_districts = {} \/ DistrictOf(i) \in selected_districts

PassesBrand(i) == selected_brands = {} \/ BrandOf(i) \in selected_brands

\* The labels of a frame ascend: it keeps the relative order of df.
InDatasetOrder(view) ==
    /\ Range(view) \subseteq Rows
    /\ \A j, k \in 1..Len(view) : j < k => view[j] < view[k]

\* The entries of an option list ascend in sorted() order, without repeats.
IsSortedList(options) ==
    \A j, k \in 1..Len(options) : j < k => Rank(options[j]) < Rank(options[k])

\* C1. Cascade consistency: across every rerun the type option list stays
\* the same; the district option list stays the same as long as the type
\* selection does (whatever happens to the district and brand selections);
\* the brand option list stays the same as long as the type and district
\* selections do (whatever happens to the brand selection).
CascadeConsistency ==
    [][ /\ clinic_type_options' = clinic_type_options
        /\ selected_types' = selected_types
              => district_options' = district_options
        /\ (selected_types' = selected_types /\ selected_districts' = selected_districts)
              => available_brands' = available_brands ]_vars

\* C1 witness: a brand is selected that leaves no visible row in one of the
\* districts still offered.
CascadeWitness ==
    /\ selected_brands # {}
    /\ \E k \in 1..Len(district_options) :
          \A i \in Range(filtered) : DistrictOf(i) # district_options[k]

\* C2. No dangling selections: every selection is a subset of the options
\* its dimension offers in the same run, the session keeps no other value
\* for a drawn widget, and no visible row is there through a district or
\* brand that is not on offer.
NoDanglingSelections ==
    /\ selected_types \subseteq Range(clinic_type_options)
    /\ selected_districts \subseteq Range(district_options)
    /\ selected_brands \subseteq Range(available_brands)
    /\ widgets.types.value = selected_types
    /\ widgets.districts.value = selected_districts
    /\ widgets.brands.value = selected_brands
    /\ \A i \in Range(filtered) :
          /\ selected_districts # {} => DistrictOf(i) \in Range(district_options)
          /\ selected_brands # {} => BrandOf(i) \in Range(available_brands)

\* C2 witness: an upstream change took away the option of a selection the
\* session held, and the run dropped that selection.
DroppedSelectionWitness ==
    \E x \in dropped :
        /\ x \notin Range(clinic_type_options)
        /\ x \notin Range(district_options)
        /\ x \notin Range(available_brands)

\* C3. Filter idempotence: applying the final filters with the current
\* selections to the filtered frame gives the filtered frame again, whose
\* rows are in the order they have in df.
FilterIdempotent ==
    /\ ApplyFinalFilters(df, filtered, selected_types, selected_districts,
                         selected_brands) = filtered
    /\ InDatasetOrder(filtered)

\* C3 witness: a district and a brand are selected, rows pass and rows are
\* filtered out.
FilterIdempotentWitness ==
    /\ selected_districts # {}
    /\ selected_brands # {}
    /\ filtered # << >>
    /\ Len(filtered) < Len(df)

\* C5. Brand option rule: the brand options are the sorted brands of the
\* Chained rows that pass the type and district selections; without Chained
\* among the selected types there is no brand option, no brand selection,
\* and the filtered frame is every row that passes type and district.
BrandOptionRule ==
    /\ Range(available_brands) =
          { BrandOf(i) : i \in { j \in Rows : /\ PassesType(j) /\ PassesDistrict(j)
                                               /\ TypeOf(j) = "Chained" } }
    /\ IsSortedList(available_brands)
    /\ "Chained" \notin selected_types =>
          /\ available_brands = << >>
          /\ selected_brands = {}
          /\ Range(filtered) = { i \in Rows : PassesType(i) /\ PassesDistrict(i) }

\* C5 witness: Chained is deselected although df has Chained rows, a brand
\* selection was given up for it, and rows remain.
BrandOptionWitness ==
    /\ "Chained" \notin selected_types
    /\ \E i \in Rows : TypeOf(i) = "Chained" /\ BrandOf(i) \in dropped
    /\ filtered # << >>

\* C4. An empty district or brand selection does not restrict: with no
\* district selected the filtered frame is every row that passes type and
\* brand, with no brand selected every row that passes type and district;
\* with all types and nothing else selected it is the whole of df.
EmptySelectionUnrestricted ==
    /\ selected_districts = {} =>
          Range(filtered) = { i \in Rows : PassesType(i) /\ PassesBrand(i) }
    /\ selected_brands = {} =>
          Range(filtered) = { i \in Rows : PassesType(i) /\ PassesDistrict(i) }
    /\ ( /\ selected_types = Range(clinic_type_options)
         /\ selected_districts = {}
         /\ selected_brands = {} ) => filtered = AllRows(df)

\* C4 witness: the default selections on a frame that has a row without a
\* type and without a district next to another row; both are shown.
EmptySelectionWitness ==
    /\ selected_types = Range(clinic_type_options)
    /\ selected_districts = {}
    /\ selected_brands = {}
    /\ Len(filtered) >= 2
    /\ \E i \in Range(filtered) : TypeOf(i) = "Nan" /\ DistrictOf(i) = NULL

RECURSIVE SumCounts(_)
SumCounts(counts) ==
    IF counts = << >> THEN 0 ELSE counts[1].count + SumCounts(Tail(counts))

\* C8 as claimed. Count reconciliation: the district counts sum to the
\* number of rows of the filtered frame and the brand counts to the number
\* of rows of the frame they are taken over, rows without a value included.
CountsReconcile ==
    /\ SumCounts(top_dist) = Len(filtered)
    /\ SumCounts(top_brands) = Len(ChainedData(df, filtered))

\* Whether `counts` lists, for the rows `view` and column col, each of the
\* at most TopN listed values once, none of them missing, each with the
\* number of rows that hold it; all of them when there are at most TopN.
CountsNonNullOf(counts, view, col) ==
    LET present == { df[i][col] : i \in Range(view) } \ {NULL}
    IN  /\ Len(counts) <= TopN
        /\ \A k \in 1..Len(counts) :
              /\ counts[k].cat \in present
              /\ counts[k].count =
                    Cardinality({ i \in Range(view) : df[i][col] = counts[k].cat })
        /\ \A j, k \in 1..Len(counts) : j # k => counts[j].cat # counts[k].cat
        /\ Cardinality(present) <= TopN =>
              /\ { counts[k].cat : k \in 1..Len(counts) } = present
              /\ SumCounts(counts) =
                    Cardinality({ i \in Range(view) : df[i][col] # NULL })

\* C8 as amended. The district counts list only districts that are present:
\* rows without a district are in no category and the counts sum to the
\* number of rows of the filtered frame that have one (when it has at most
\* ten districts); the brand counts do the same over the Chained rows of
\* the filtered frame, where a missing brand is the brand "Unknown".
CountsCoverNonNull ==
    /\ CountsNonNullOf(top_dist, filtered, "Mapped_District")
    /\ CountsNonNullOf(top_brands, ChainedData(df, filtered), "Brand_name")

\* C8 witness: the filtered frame has a row with a district, a row without
\* one, and a Chained row whose brand was missing in the CSV.
CountsWitness ==
    /\ top_dist # << >>
    /\ \E i \in Range(filtered) : DistrictOf(i) = NULL
    /\ \E i \in Range(filtered) : TypeOf(i) = "Chained" /\ BrandOf(i) = "Unknown"

\* The address column the headquarters table shows.
HqOf(i) == df[i][ValidHqCol(columns)]

\* The Chained rows of `view` of brand b, as labels.
ChainedOfBrand(view, b) ==
    { i \in Range(view) : TypeOf(i) = "Chained" /\ BrandOf(i) = b }

\* C6 as claimed. The headquarters value of a brand is looked up in the
\* whole of df: a brand in the table whose visible rows all lack an address
\* while another Chained row of it in df has one is shown with an address.
HqTakenFromUnfilteredDataset ==
    hq_status = "table" =>
        \A k \in 1..Len(distinct_hq) :
            LET b == distinct_hq[k].Brand_name
            IN  ( /\ \A i \in ChainedOfBrand(filtered, b) : HqOf(i) = NULL
                  /\ \E i \in ChainedOfBrand(AllRows(df), b) : HqOf(i) # NULL )
                => distinct_hq[k].Location # NULL

\* C6 as amended. The table is built from the filtered frame alone: its
\* brands are the brands of the visible Chained rows, and the address shown
\* for a brand is the address cell of one of those visible rows, so a brand
\* whose visible rows all lack an address is shown without one.
HqTakenFromFilteredView ==
    hq_status = "table" =>
        /\ { distinct_hq[k].Brand_name : k \in 1..Len(distinct_hq) } =
              { BrandOf(i) : i \in { j \in Range(filtered) : TypeOf(j) = "Chained" } }
        /\ \A k \in 1..Len(distinct_hq) :
              \E i \in ChainedOfBrand(filtered, distinct_hq[k].Brand_name) :
                  HqOf(i) = distinct_hq[k].Location

\* C6 witness: a district is selected, the one visible brand row has no
\* address, a Chained row of the brand outside the selection has one, and
\* the table shows the brand without an address.
HqFilteredWitness ==
    /\ hq_status = "table"
    /\ selected_districts # {}
    /\ \E k \in 1..Len(distinct_hq) :
          /\ distinct_hq[k].Location = NULL
          /\ \E i \in ChainedOfBrand(AllRows(df), distinct_hq[k].Brand_name) :
                i \notin Range(filtered) /\ HqOf(i) # NULL

\* The first label of a non-empty set of labels.
FirstOf(I) == CHOOSE i \in I : \A j \in I : i <= j

\* C7 as claimed. Dedup stability: one row per brand, showing the first
\* address that is present among the brand's rows of the table's input, in
\* row order (none only when every one of them lacks it).
DedupPrefersFirstNonNull ==
    hq_status = "table" =>
        /\ \A j, k \in 1..Len(distinct_hq) :
              j # k => distinct_hq[j].Brand_name # distinct_hq[k].Brand_name
        /\ \A k \in 1..Len(distinct_hq) :
              LET own  == ChainedOfBrand(filtered, distinct_hq[k].Brand_name)
                  with == { i \in own : HqOf(i) # NULL }
              IN  distinct_hq[k].Location =
                     IF with = {} THEN NULL ELSE HqOf(FirstOf(with))

\* C7 as amended. One row per brand of the table's input, by brand, showing
\* the address cell of the brand's first input row, present or not.
DedupKeepsFirstOccurrence ==
    hq_status = "table" =>
        /\ \A j, k \in 1..Len(distinct_hq) :
              j < k => Rank(distinct_hq[j].Brand_name) < Rank(distinct_hq[k].Brand_name)
        /\ { distinct_hq[k].Brand_name : k \in 1..Len(distinct_hq) } =
              { BrandOf(i) : i \in { j \in Range(filtered) : TypeOf(j) = "Chained" } }
        /\ \A k \in 1..Len(distinct_hq) :
              distinct_hq[k].Location =
                 HqOf(FirstOf(ChainedOfBrand(filtered, distinct_hq[k].Brand_name)))

\* C7 witness: a brand's first visible row has no address, a later visible
\* row of it has one, and the table shows the brand without an address.
DedupWitness ==
    /\ hq_status = "table"
    /\ \E k \in 1..Len(distinct_hq) :
          /\ distinct_hq[k].Location = NULL
          /\ \E i \in ChainedOfBrand(filtered, distinct_hq[k].Brand_name) :
                HqOf(i) # NULL

\* The bounding box of the claim: latitude 8 to 14, longitude 76 to 81, in
\* units of 0.0001 degree.
Box == [ min_lat |-> 80000, max_lat |-> 140000, min_lon |-> 760000, max_lon |-> 810000 ]

HasCoords(i) == df[i]["Latitude"] # NoCoord /\ df[i]["Longitude"] # NoCoord

InBox(i) ==
    /\ Box.min_lat <= df[i]["Latitude"][1] /\ df[i]["Latitude"][1] <= Box.max_lat
    /\ Box.min_lon <= df[i]["Longitude"][1] /\ df[i]["Longitude"][1] <= Box.max_lon

\* C9 as claimed. Geo-bounding: a row of the filtered frame is in the geo
\* subset exactly when it has both coordinates and they lie in the closed
\* box; the subset keeps the frame's order.
GeoSubsetInsideBox ==
    /\ \A i \in Range(filtered) :
          i \in Range(geo_data) <=> (HasCoords(i) /\ InBox(i))
    /\ InDatasetOrder(geo_data)

\* C9 as amended. A row of the filtered frame is in the geo subset exactly
\* when it has both coordinates, wherever they lie; the subset holds rows
\* of the frame only and keeps the frame's order.
GeoSubsetHasCoords ==
    /\ Range(geo_data) \subseteq Range(filtered)
    /\ \A i \in Range(filtered) : i \in Range(geo_data) <=> HasCoords(i)
    /\ InDatasetOrder(geo_data)

\* C9 witness: the geo subset holds a row 0.0001 degree north of the box,
\* and a visible row with one coordinate only is left out.
GeoWitness ==
    /\ \E i \in Range(geo_data) : df[i]["Latitude"][1] > Box.max_lat
    /\ \E i \in Range(filtered) :
          /\ i \notin Range(geo_data)
          /\ df[i]["Latitude"] # NoCoord
          /\ df[i]["Longitude"] = NoCoord

\* The columns the claim calls optional.
OptionalCols ==
    { "Mapped_District", "Brand_name", "Latitude", "Longitude", "Email", "HQ",
      "Google_Full_Address" }

\* C10. A missing optional column is not an error: on a frame with at
\* least one row that lacks none but optional columns, the run completes,
\* and a headquarters table that cannot be built for want of an address
\* column is reported as such.
MissingOptionalColumnTolerated ==
    (Len(df) >= 1 /\ LoadColumns(AllCols) \ columns \subseteq OptionalCols) =>
        /\ status = "ok"
        /\ (ValidHqCol(columns) = NULL /\ ChainedData(df, filtered) # << >>) =>
              hq_status = "Could not find an address column."

=============================================================================
